---- MODULE Spec2Model ----
(***************************************************************************)
(* UG4Tests: the Laplace regression test (regression_tests.cpp,            *)
(* regression_tests/laplace.cpp, regression_tests/testcase.h) and the      *)
(* MathVector unit tests (unit_tests/vector_tests.cpp).                    *)
(*                                                                         *)
(* Doubles are modelled on a grid of half a tolerance: the integer n       *)
(* stands for n * 0.0000005, so the tolerance 0.000001 of isEqual is 2.    *)
(* Calls into the UG4 framework (LoadDomain, assemble_linear, the solver)  *)
(* are taken to return normally; what they compute is a nondeterministic   *)
(* choice from bounded sets.                                               *)
(***************************************************************************)
EXTENDS Integers, Sequences, FiniteSets, TLC

\* ------------------------------------------------------------------ bounds
\* Longest sequence of doubles (operator values, reference file tokens).
MaxLen == 2
\* Largest number of degrees of freedom of the approximation space.
MaxDofs == 1
\* Largest component urand(0, 10) yields in the model.
MaxRand == 2
\* Most calls of compare() after the first one.
MaxRepeats == 1

\* ------------------------------------------------------- program constants
\* 0.000001 in isEqual, in grid units of 0.0000005.
Tol == 2
\* refine(4) in Laplace::run.
NumRefs == 4
\* static const int dim = 3 of the VectorTests fixture.
Dim == 3

\* The doubles of the model, in grid units.
Values == {0, 1, 2}
\* A token of the reference file: a number, or text that does not parse.
BadToken == -1
Tokens == Values \cup {BadToken}

SeqsUpTo(S, n) == UNION {[1..k -> S] : k \in 0..n}

\* A SmartPtr to a std::vector<double>: null until make_sp assigns it.
NullPtr == [null |-> TRUE, v |-> <<>>]
Ptr(s) == [null |-> FALSE, v |-> s]

VARIABLES
  kind,          \* class of the test case object: "Laplace" or "Testcase"
  pc,            \* position of TEST(Laplace, RegressionTests)
  file,          \* the reference file: [exists, tokens]
  m_gridname, m_reference,
  steps,         \* the framework calls run() has made, in order
  refI,          \* loop counter of refine()
  m_spOp,        \* values of the assembled operator
  m_spU, m_spB,  \* solution and right-hand side grid functions
  m_spSolution, m_spReference,
  cmpI,          \* loop counter of compare()
  ret,           \* what compare() returned: "none", "true", "false"
  notEqualAt,    \* the index printed by "Not equal at", -1 if none
  examined,      \* indices at which compare() read m_spReference
  repeats,       \* calls of compare() made after the first one
  prevRet,       \* what the previous call of compare() returned
  prevAt,        \* the index the previous call of compare() printed
  vpc,           \* position in the VectorTests test that is running
  vec,           \* the fixture's vectors a, b, c, d, e and the local acopy
  call,          \* the last vector function called: [fn, out, ins, scal]
  old            \* vec as it was when that call was made

vars == <<kind, pc, file, m_gridname, m_reference, steps, refI, m_spOp, m_spU, m_spB,
          m_spSolution, m_spReference, cmpI, ret, notEqualAt, examined,
          repeats, prevRet, prevAt,
          vpc, vec, call, old>>

runVars == <<steps, refI, m_spOp, m_spU, m_spB, m_spSolution>>
cmpVars == <<m_spReference, cmpI, ret, notEqualAt, examined>>
vecVars == <<vpc, vec, call, old>>
prevVars == <<repeats, prevRet, prevAt>>
fixVars == <<kind, file, m_gridname, m_reference, prevVars, vecVars>>
regVars == <<kind, pc, file, m_gridname, m_reference, runVars, cmpVars, prevVars>>

\* --------------------------------------------------------------- helpers
Abs(x) == IF x < 0 THEN -x ELSE x

\* isEqual as an exact comparison of the two doubles.
isEqual_exact(a, b) == a = b

\* isEqual with a non-strict bound.
isEqual_le(a, b) == Abs(a - b) <= Tol

\* Testcase::isEqual
isEqual(a, b) == Abs(a - b) < Tol

\* std::vector<double>(istream_iterator(is), end): the numbers up to the first
\* token that does not parse; nothing when the file could not be opened.
RECURSIVE ParsePrefix(_)
ParsePrefix(toks) ==
  IF toks = <<>> \/ Head(toks) = BadToken THEN <<>>
  ELSE <<Head(toks)>> \o ParsePrefix(Tail(toks))

ReadFile(f) == IF f.exists THEN ParsePrefix(f.tokens) ELSE <<>>

\* ------------------------------------------------- MathVector functions
\* The vectors of the VectorTests fixture, and acopy of the VecAppend test.
Names == {"a", "b", "c", "d", "e", "acopy"}
Zero == [i \in 1..Dim |-> 0]
\* What reset() can store in a and b: each component is urand(0, 10).
RandVecs == [1..Dim -> 0..MaxRand]

NoCall == [fn |-> "none", out |-> "a", ins |-> <<>>, scal |-> <<>>]
MkCall(fn, out, ins, scal) == [fn |-> fn, out |-> out, ins |-> ins, scal |-> scal]

\* The unit tests do not run in the regression test's process.
VecIdle ==
  /\ vpc = "idle"
  /\ vec = [n \in Names |-> Zero]
  /\ call = NoCall
  /\ old = [n \in Names |-> Zero]

RECURSIVE SeqSum(_)
SeqSum(q) == IF q = <<>> THEN 0 ELSE Head(q) + SeqSum(Tail(q))

RECURSIVE Pow(_, _)
Pow(x, p) == IF p = 0 THEN 1 ELSE x * Pow(x, p - 1)

\* The numbers of operands each function is given, and the scalars.
AppendArity == 1..4
ScaleAppendArity == 1..5
AddArity == 2..4
Scalars == {-1, 3}
Powers == 0..3

\* VecCopy(dst, src, fill): dst becomes src (the sizes are equal).
VecCopy(dst, src, fill) == [i \in 1..Dim |-> src[i]]

\* VecAppend(r, v1, ..., vk): r[i] += v1[i] + ... + vk[i].
VecAppend(r, vs) ==
  [i \in 1..Dim |-> r[i] + SeqSum([k \in 1..Len(vs) |-> vs[k][i]])]

\* VecScaleAppend(r, s1, v1, ..., sk, vk): r[i] += s1*v1[i] + ... + sk*vk[i].
VecScaleAppend(r, ss, vs) ==
  [i \in 1..Dim |-> r[i] + SeqSum([k \in 1..Len(vs) |-> ss[k] * vs[k][i]])]

\* VecAdd(r, v1, ..., vk): r[i] = v1[i] + ... + vk[i].
VecAdd(r, vs) ==
  [i \in 1..Dim |-> SeqSum([k \in 1..Len(vs) |-> vs[k][i]])]

\* VecSubtract(r, v1, v2): r[i] = v1[i] - v2[i].
VecSubtract(r, v1, v2) == [i \in 1..Dim |-> v1[i] - v2[i]]

\* VecPow(r, v, p): r[i] = pow(v[i], p).
VecPow(r, v, p) == [i \in 1..Dim |-> Pow(v[i], p)]

\* The value call c stores in its result vector when the vectors are v.
Eval(v, c) ==
  LET args == [k \in 1..Len(c.ins) |-> v[c.ins[k]]] IN
  CASE c.fn = "VecAppend" -> VecAppend(v[c.out], args)
    [] c.fn = "VecScaleAppend" -> VecScaleAppend(v[c.out], c.scal, args)
    [] c.fn = "VecAdd" -> VecAdd(v[c.out], args)
    [] c.fn = "VecSubtract" -> VecSubtract(v[c.out], args[1], args[2])
    [] c.fn = "VecPow" -> VecPow(v[c.out], args[1], c.scal[1])

\* Call c made on the vectors v: the result vector is written, and the call and
\* the vectors it was made on are remembered.
Invoke(v, c) ==
  /\ old' = v
  /\ call' = c
  /\ vec' = [v EXCEPT ![c.out] = Eval(v, c)]

\* VectorTests::reset(): a and b are drawn at random, c, d, e are set to 0.
ResetStates ==
  {[n \in Names |-> IF n = "a" THEN x ELSE IF n = "b" THEN y ELSE Zero] :
     x \in RandVecs, y \in RandVecs}

\* ------------------------------------------------------------------ Init
\* Testcase(grid, reference): the two names are stored, every SmartPtr is null.
TestcaseInit ==
  /\ pc = "constructed"
  /\ m_gridname = "laplace_sphere_3d.ugx"
  /\ m_reference = "laplace.txt"
  /\ steps = <<>>
  /\ refI = 0
  /\ m_spOp = NullPtr
  /\ m_spU = NullPtr
  /\ m_spB = NullPtr
  /\ m_spSolution = NullPtr
  /\ m_spReference = NullPtr
  /\ cmpI = 0
  /\ ret = "none"
  /\ notEqualAt = -1
  /\ examined = {}
  /\ repeats = 0
  /\ prevRet = "none"
  /\ prevAt = -1

\* The reference file is whatever the environment holds: absent, or a sequence
\* of tokens.
Init ==
  /\ TestcaseInit
  /\ kind \in {"Laplace", "Testcase"}
  /\ file \in [exists : BOOLEAN, tokens : SeqsUpTo(Tokens, MaxLen)]
  /\ (~file.exists => file.tokens = <<>>)
  /\ VecIdle

\* ------------------------------------------------------------ Laplace::run
Step(from, to, name) ==
  /\ pc = from
  /\ pc' = to
  /\ steps' = Append(steps, name)

\* Testcase::run returning normally instead of throwing.
BaseRun_returns ==
  /\ kind = "Testcase"
  /\ pc = "constructed"
  /\ pc' = "ran"
  /\ UNCHANGED runVars /\ UNCHANGED cmpVars /\ UNCHANGED fixVars

\* Testcase::run, the run() of a test case that does not define its own:
\* UG_THROW raises an error out of run() and out of the test body.
BaseRun ==
  /\ kind = "Testcase"
  /\ pc = "constructed"
  /\ pc' = "thrown"
  /\ UNCHANGED runVars /\ UNCHANGED cmpVars /\ UNCHANGED fixVars

\* InitUG, new TDomain, LoadDomain; then refine(4) is entered with i = 0.
LoadDomain ==
  /\ kind = "Laplace"
  /\ Step("constructed", "refine", "load")
  /\ refI' = 0
  /\ UNCHANGED <<m_spOp, m_spU, m_spB, m_spSolution>>
  /\ UNCHANGED cmpVars /\ UNCHANGED fixVars

\* The loop of refine() running once too often.
RefineLoopCond_le(i, numRefs) == i <= numRefs

\* for (int i = 0; i < numRefs; i++)
RefineLoopCond(i, numRefs) == i < numRefs

\* One pass of the loop of Testcase::refine: ref.refine().
RefineStep ==
  /\ pc = "refine"
  /\ RefineLoopCond(refI, NumRefs)
  /\ steps' = Append(steps, "refine")
  /\ refI' = refI + 1
  /\ UNCHANGED <<pc, m_spOp, m_spU, m_spB, m_spSolution>>
  /\ UNCHANGED cmpVars /\ UNCHANGED fixVars

\* The loop ends; the approximation space is created and initialised.
ApproxSpace ==
  /\ ~RefineLoopCond(refI, NumRefs)
  /\ Step("refine", "elemdisc", "approxspace")
  /\ UNCHANGED <<refI, m_spOp, m_spU, m_spB, m_spSolution>>
  /\ UNCHANGED cmpVars /\ UNCHANGED fixVars

ElemDisc ==
  /\ Step("elemdisc", "dirichlet", "elemdisc")
  /\ UNCHANGED <<refI, m_spOp, m_spU, m_spB, m_spSolution>>
  /\ UNCHANGED cmpVars /\ UNCHANGED fixVars

Dirichlet ==
  /\ Step("dirichlet", "domaindisc", "dirichlet")
  /\ UNCHANGED <<refI, m_spOp, m_spU, m_spB, m_spSolution>>
  /\ UNCHANGED cmpVars /\ UNCHANGED fixVars

\* new TDomainDiscretization; add(m_spElemDisc); add(m_spDirichlet).
DomainDisc ==
  /\ Step("domaindisc", "solverconfig", "domaindisc")
  /\ UNCHANGED <<refI, m_spOp, m_spU, m_spB, m_spSolution>>
  /\ UNCHANGED cmpVars /\ UNCHANGED fixVars

\* Smoother, base solver, transfer, multigrid, convergence check, BiCGStab:
\* objects are created and configured, nothing is computed yet.
SolverConfig ==
  /\ Step("solverconfig", "assemble", "solverconfig")
  /\ UNCHANGED <<refI, m_spOp, m_spU, m_spB, m_spSolution>>
  /\ UNCHANGED cmpVars /\ UNCHANGED fixVars

\* m_spOp, m_spU, m_spB are created; u is set to 0 and adjusted to the Dirichlet
\* values; assemble_linear fills the operator and the right-hand side.
Assemble ==
  /\ Step("assemble", "init", "assemble")
  /\ \E n \in 1..MaxDofs :
       /\ m_spU' \in {Ptr(u) : u \in [1..n -> Values]}
       /\ m_spB' \in {Ptr(b) : b \in [1..n -> Values]}
  /\ m_spOp' \in {Ptr(a) : a \in SeqsUpTo(Values, MaxLen)}
  /\ UNCHANGED <<refI, m_spSolution>>
  /\ UNCHANGED cmpVars /\ UNCHANGED fixVars

SolverInit ==
  /\ Step("init", "apply", "init")
  /\ UNCHANGED <<refI, m_spOp, m_spU, m_spB, m_spSolution>>
  /\ UNCHANGED cmpVars /\ UNCHANGED fixVars

\* m_spSolver->apply(*m_spU, *m_spB) writes the solution into u.
SolverApply ==
  /\ Step("apply", "save", "apply")
  /\ m_spU' \in {Ptr(u) : u \in [1..Len(m_spU.v) -> Values]}
  /\ UNCHANGED <<refI, m_spOp, m_spB, m_spSolution>>
  /\ UNCHANGED cmpVars /\ UNCHANGED fixVars

\* sol = new vector; m_spOp->get_values(*sol); m_spSolution = sol.
SavedValues == m_spOp.v

SaveSolution ==
  /\ Step("save", "ran", "store")
  /\ m_spSolution' = Ptr(SavedValues)
  /\ UNCHANGED <<refI, m_spOp, m_spU, m_spB>>
  /\ UNCHANGED cmpVars /\ UNCHANGED fixVars

\* ------------------------------------------------------- Testcase::compare
\* read_reference(), then the loop starts at i = 0.
CompareRead ==
  /\ pc = "ran"
  /\ pc' = "loop"
  /\ m_spReference' = Ptr(ReadFile(file))
  /\ cmpI' = 0
  /\ UNCHANGED <<ret, notEqualAt, examined>>
  /\ UNCHANGED runVars /\ UNCHANGED fixVars

\* compare() called again after it has returned: the reference file is read
\* anew and the loop starts again at i = 0; what the call before returned and
\* printed is remembered.
CompareAgain ==
  /\ pc = "returned"
  /\ repeats < MaxRepeats
  /\ pc' = "loop"
  /\ repeats' = repeats + 1
  /\ prevRet' = ret
  /\ prevAt' = notEqualAt
  /\ m_spReference' = Ptr(ReadFile(file))
  /\ cmpI' = 0
  /\ ret' = "none"
  /\ notEqualAt' = -1
  /\ examined' = {}
  /\ UNCHANGED runVars
  /\ UNCHANGED <<kind, file, m_gridname, m_reference, vecVars>>

\* What (*m_spReference)[i] yields: the element, or, past the end of the vector
\* (undefined behaviour), any double.  The read may also fault: CompareFault.
ReferenceAt(i) ==
  IF i < Len(m_spReference.v) THEN {m_spReference.v[i + 1]} ELSE Values

\* One pass of the loop: i < size, the two elements are compared.
CompareStep ==
  /\ pc = "loop"
  /\ cmpI < Len(m_spSolution.v)
  /\ examined' = examined \cup {cmpI}
  /\ \E r \in ReferenceAt(cmpI) :
       IF isEqual(m_spSolution.v[cmpI + 1], r)
       THEN /\ cmpI' = cmpI + 1
            /\ UNCHANGED <<pc, ret, notEqualAt>>
       ELSE /\ notEqualAt' = cmpI
            /\ ret' = "false"
            /\ pc' = "returned"
            /\ UNCHANGED cmpI
  /\ UNCHANGED m_spReference
  /\ UNCHANGED runVars /\ UNCHANGED fixVars

\* The read past the end of m_spReference faults: the test process dies.
CompareFault ==
  /\ pc = "loop"
  /\ cmpI < Len(m_spSolution.v)
  /\ cmpI >= Len(m_spReference.v)
  /\ examined' = examined \cup {cmpI}
  /\ pc' = "crashed"
  /\ UNCHANGED <<m_spReference, cmpI, ret, notEqualAt>>
  /\ UNCHANGED runVars /\ UNCHANGED fixVars

\* The loop ends without a mismatch: return true.
CompareTrue ==
  /\ pc = "loop"
  /\ ~(cmpI < Len(m_spSolution.v))
  /\ ret' = "true"
  /\ pc' = "returned"
  /\ UNCHANGED <<m_spReference, cmpI, notEqualAt, examined>>
  /\ UNCHANGED runVars /\ UNCHANGED fixVars

\* ------------------------------------------------- regression test: claims
AfterRun == {"ran", "loop", "returned", "crashed"}
AfterCompare == {"returned", "crashed"}

sol == m_spSolution.v
ref == m_spReference.v

\* Every pair of corresponding elements differs by less than the tolerance.
AllWithinTol == \A k \in 1..Len(sol) : k <= Len(ref) => Abs(sol[k] - ref[k]) < Tol
\* The 0-based indices whose pair differs by at least the tolerance.
Mismatches == {k \in 0..(Len(sol) - 1) : k < Len(ref) /\ Abs(sol[k + 1] - ref[k + 1]) >= Tol}
Lowest(S) == CHOOSE k \in S : \A j \in S : k <= j
MalformedFile == ~file.exists \/ \E k \in 1..Len(file.tokens) : file.tokens[k] = BadToken

\* C1: when compare() has ended on a solution and a reference of the same
\* length whose corresponding elements all differ by less than 0.000001, it has
\* returned true and printed no mismatch index.
C1_Theorem ==
  (pc \in AfterCompare /\ Len(sol) = Len(ref) /\ AllWithinTol)
    => (pc = "returned" /\ ret = "true" /\ notEqualAt = -1)

C1_Witness ==
  /\ pc = "returned" /\ ret = "true"
  /\ Len(sol) = 2 /\ Len(ref) = 2
  /\ sol[1] # ref[1] /\ sol[2] # ref[2]
  /\ AllWithinTol

\* C2: when compare() has ended on a solution and a reference of the same
\* length in which some pair differs by at least 0.000001, it has returned
\* false, the index it printed is the lowest index whose pair differs by at
\* least 0.000001, and it read the reference at no index after that one.
C2_Theorem ==
  (pc \in AfterCompare /\ Len(sol) = Len(ref) /\ Mismatches # {})
    => /\ pc = "returned" /\ ret = "false"
       /\ notEqualAt = Lowest(Mismatches)
       /\ examined = 0..notEqualAt

\* The pair at index 0 differs by exactly the tolerance and the pair at index 1
\* differs too: index 0 is reported and index 1 is never read.
C2_Witness ==
  /\ pc = "returned" /\ ret = "false"
  /\ Len(sol) = 2 /\ Len(ref) = 2
  /\ Abs(sol[1] - ref[1]) = Tol
  /\ Mismatches = {0, 1}
  /\ notEqualAt = 0 /\ examined = {0}

\* A mismatch that is not at the first index: index 0 passes, index 1 is reported.
C2_WitnessLater ==
  /\ pc = "returned" /\ ret = "false"
  /\ Mismatches = {1} /\ notEqualAt = 1 /\ examined = {0, 1}

\* C3: whenever compare() returns true, the solution and the reference read
\* from the file have equal length and every pair of corresponding elements is
\* equal within the tolerance.
C3_Claim ==
  (pc = "returned" /\ ret = "true")
    => (Len(sol) = Len(ref) /\ AllWithinTol)

\* C4: after run() has completed, m_spSolution holds the solution vector m_spU
\* that the solver's apply step produced.
C4_Claim == pc \in AfterRun => m_spSolution = m_spU

\* C5: if the reference file does not exist or holds a token that does not
\* parse, compare() never returns true and never reads the reference at an
\* index at or beyond the number of values parsed.
C5_Claim ==
  (pc \in {"loop"} \cup AfterCompare /\ MalformedFile)
    => (ret # "true" /\ \A k \in examined : k < Len(ref))

\* The order of the framework calls of a complete run().
RunOrder ==
  <<"load">> \o [k \in 1..NumRefs |-> "refine"]
    \o <<"approxspace", "elemdisc", "dirichlet", "domaindisc", "solverconfig",
         "assemble", "init", "apply", "store">>

IsPrefix(s, t) == Len(s) <= Len(t) /\ \A k \in 1..Len(s) : s[k] = t[k]

\* C10: the steps of run() occur in the order load, refine (exactly 4 times),
\* approximation space, element discretization, Dirichlet conditions, domain
\* discretization, assembly, solver init, solver apply, store, each once; no
\* refinement follows the approximation space, and the solution is stored
\* only after all the others.
C10_Theorem ==
  /\ IsPrefix(steps, RunOrder)
  /\ (pc \in AfterRun => steps = RunOrder)
  /\ (~m_spSolution.null => steps = RunOrder)
  /\ Cardinality({k \in 1..Len(steps) : steps[k] = "refine"}) <= 4

C10_Witness ==
  /\ pc = "ran" /\ ~m_spSolution.null
  /\ steps = RunOrder
  /\ Cardinality({k \in 1..Len(steps) : steps[k] = "refine"}) = 4

Next ==
  \/ BaseRun
  \/ LoadDomain \/ RefineStep \/ ApproxSpace \/ ElemDisc \/ Dirichlet
  \/ DomainDisc \/ SolverConfig \/ Assemble \/ SolverInit \/ SolverApply
  \/ SaveSolution
  \/ CompareRead \/ CompareAgain \/ CompareStep \/ CompareFault \/ CompareTrue

Spec == Init /\ [][Next]_vars

\* A step of compare(): the test is between the end of run() and the end of
\* the last call of compare().
InCompare == pc \in {"ran", "loop", "returned"}

\* compare() leaves the solution, the two names and the file as they are, and
\* assigns m_spReference only what read_reference() parses from the file.
CompareFrame ==
  /\ m_spSolution' = m_spSolution
  /\ m_gridname' = m_gridname /\ m_reference' = m_reference
  /\ file' = file
  /\ (m_spReference' # m_spReference => m_spReference' = Ptr(ReadFile(file)))

\* A repeated call of compare() ends as the call before it did.
SameAsBefore ==
  (repeats > 0 /\ pc \in AfterCompare)
    => (pc = "returned" /\ ret = prevRet /\ notEqualAt = prevAt)

\* C12: compare() leaves the solution, the grid name, the reference path and
\* the file unchanged and only replaces m_spReference by a fresh read of the
\* file; so every further call of compare() after run(), the file being
\* unchanged, returns the same boolean and prints the same mismatch index.
C12_Claim == [][InCompare => (CompareFrame /\ SameAsBefore')]_vars

\* The part of C12 that does not depend on reads past the end of the
\* reference: the frame of compare().
C12_FrameHolds == [][InCompare => CompareFrame]_vars

\* When the reference read from the file has at least as many values as the
\* solution, a repeated call ends as the call before it did.
C12_SameWithinBounds == Len(ref) >= Len(sol) => SameAsBefore

\* A repeated call has ended on a solution and a reference of two values each.
C12_RepeatReached ==
  /\ repeats = 1 /\ pc = "returned" /\ ret = "false" /\ prevRet = "false"
  /\ Len(sol) = 2 /\ Len(ref) = 2 /\ notEqualAt = 1

\* C11: run() of the base Testcase always ends in a raised error and never
\* returns: the test case never gets past construction, no solution is stored,
\* every field is as the constructor left it, and once the error is raised
\* nothing more of the test case runs (no retry, no compare()).
C11_Theorem ==
  kind = "Testcase" =>
    /\ pc \in {"constructed", "thrown"}
    /\ m_spSolution = NullPtr /\ m_spReference = NullPtr
    /\ m_spOp = NullPtr /\ m_spU = NullPtr /\ m_spB = NullPtr
    /\ steps = <<>> /\ refI = 0
    /\ cmpI = 0 /\ ret = "none" /\ notEqualAt = -1 /\ examined = {}
    /\ m_gridname = "laplace_sphere_3d.ugx" /\ m_reference = "laplace.txt"
    /\ (pc = "thrown" => ~ENABLED Next)

\* The base run() has thrown, with a reference file that could have been read.
C11_Witness ==
  /\ kind = "Testcase" /\ pc = "thrown"
  /\ file.exists /\ Len(file.tokens) = 2
  /\ m_spSolution.null

\* ------------------------------------------------------- VectorTests: tests
TestStep(from, to, v, c) ==
  /\ vpc = from
  /\ vpc' = to
  /\ Invoke(v, c)
  /\ UNCHANGED regVars

WithCopy(v) == [v EXCEPT !["acopy"] = VecCopy(v["acopy"], v["a"], 0)]

\* TYPED_TEST(VectorTests, VecAppend)
\* VecAppend(a, b) made before a is copied to acopy.
T_Append1_swapped ==
  /\ vpc = "fixture"
  /\ vpc' = "append1"
  /\ old' = vec
  /\ call' = MkCall("VecAppend", "a", <<"b">>, <<>>)
  /\ vec' = WithCopy([vec EXCEPT !["a"] = Eval(vec, call')])
  /\ UNCHANGED regVars

\* VecCopy(acopy, a, 0); VecAppend(a, b);
T_Append1 ==
  TestStep("fixture", "append1", WithCopy(vec), MkCall("VecAppend", "a", <<"b">>, <<>>))

T_Append2 ==
  TestStep("append1", "append2", vec, MkCall("VecAppend", "c", <<"a", "b">>, <<>>))

T_Append3 ==
  TestStep("append2", "append3", vec, MkCall("VecAppend", "d", <<"a", "b", "c">>, <<>>))

T_Append4 ==
  TestStep("append3", "append4", vec,
           MkCall("VecAppend", "e", <<"a", "b", "c", "d">>, <<>>))

\* TYPED_TEST(VectorTests, VecScaleAppend)
T_Scale1 ==
  TestStep("fixture", "scale1", vec, MkCall("VecScaleAppend", "c", <<"b">>, <<2>>))

\* The second call made without c = 0 before it.
T_Scale2_noclear ==
  TestStep("scale1", "scale2", vec,
           MkCall("VecScaleAppend", "c", <<"a", "b">>, <<2, 3>>))

\* c = 0; VecScaleAppend(c, 2, a, 3, b);
T_Scale2 ==
  TestStep("scale1", "scale2", [vec EXCEPT !["c"] = Zero],
           MkCall("VecScaleAppend", "c", <<"a", "b">>, <<2, 3>>))

T_Scale3 ==
  TestStep("scale2", "scale3", vec,
           MkCall("VecScaleAppend", "d", <<"a", "b", "c">>, <<2, 3, 4>>))

T_Scale4 ==
  TestStep("scale3", "scale4", vec,
           MkCall("VecScaleAppend", "e", <<"a", "b", "c", "d">>, <<2, 3, 4, 5>>))

\* TYPED_TEST(VectorTests, VecAdd)
T_Add1 ==
  TestStep("fixture", "add1", vec, MkCall("VecAdd", "c", <<"a", "b">>, <<>>))

T_Add2 ==
  TestStep("add1", "add2", vec, MkCall("VecAdd", "d", <<"a", "b", "c">>, <<>>))

T_Add3 ==
  TestStep("add2", "add3", vec, MkCall("VecAdd", "e", <<"a", "b", "c", "d">>, <<>>))

\* TYPED_TEST(VectorTests, VecSub)
\* VecSubtract with its two operands exchanged.
T_Sub1_swapped ==
  TestStep("fixture", "sub1", vec, MkCall("VecSubtract", "c", <<"b", "a">>, <<>>))

T_Sub1 ==
  TestStep("fixture", "sub1", vec, MkCall("VecSubtract", "c", <<"a", "b">>, <<>>))

\* TYPED_TEST(VectorTests, VecPow)
\* VecPow called with the exponent 1.
T_Pow1_linear ==
  TestStep("fixture", "pow1", vec, MkCall("VecPow", "c", <<"a">>, <<1>>))

T_Pow1 ==
  TestStep("fixture", "pow1", vec, MkCall("VecPow", "c", <<"a">>, <<2>>))

\* ---------------------------------------- the functions on arbitrary operands
\* The operands of a call with k operands whose result is out: the two other
\* vectors among a, b, c, in turn.
Others(out) ==
  CASE out = "a" -> <<"b", "c">>
    [] out = "b" -> <<"c", "a">>
    [] out = "c" -> <<"a", "b">>
Operands(out, k) == [j \in 1..k |-> Others(out)[((j - 1) % 2) + 1]]

Apply(c) ==
  /\ vpc = "fixture"
  /\ vpc' = "applied"
  /\ Invoke(vec, c)
  /\ UNCHANGED regVars

ApplyVecAppend ==
  \E out \in {"a", "b", "c"}, k \in AppendArity :
    Apply(MkCall("VecAppend", out, Operands(out, k), <<>>))

ApplyVecScaleAppend ==
  \E out \in {"a", "b", "c"}, k \in ScaleAppendArity :
    \E ss \in [1..k -> Scalars] :
      Apply(MkCall("VecScaleAppend", out, Operands(out, k), ss))

ApplyVecAdd ==
  \E out \in {"a", "b", "c"}, k \in AddArity :
    Apply(MkCall("VecAdd", out, Operands(out, k), <<>>))

ApplyVecSubtract ==
  \E out \in {"a", "b", "c"} :
    Apply(MkCall("VecSubtract", out, Operands(out, 2), <<>>))

ApplyVecPow ==
  \E out \in {"a", "b", "c"}, p \in Powers :
    Apply(MkCall("VecPow", out, Operands(out, 1), <<p>>))

\* ----------------------------------------------------- VectorTests: claims
RECURSIVE Total(_, _)
Total(f, n) == IF n = 0 THEN 0 ELSE Total(f, n - 1) + f[n]

RECURSIVE Power(_, _)
Power(x, p) == IF p = 0 THEN 1 ELSE Power(x, p - 1) * x

\* The result vector after the last call and before it, and the k-th operand.
Res == vec[call.out]
Was == old[call.out]
Arg(k) == old[call.ins[k]]
NArgs == Len(call.ins)
\* Every vector but the result is as it was before the call.
Frame == \A n \in Names \ {call.out} : vec[n] = old[n]
Comp == 1..Dim

\* C6: after VecAppend(r, v1, ..., vk), k from 1 to 4, every component of r is
\* its value before the call plus v1[i] + ... + vk[i], and the added vectors
\* are unchanged; the VecAppend test's expectations hold (a = acopy + b after
\* VecAppend(a, b); c = a + b, d = a + b + c, e = a + b + c + d at its end).
C6_Theorem ==
  /\ call.fn = "VecAppend" =>
       /\ NArgs \in 1..4
       /\ \A i \in Comp : Res[i] = Was[i] + Total([k \in 1..NArgs |-> Arg(k)[i]], NArgs)
       /\ Frame
  /\ vpc = "append1" =>
       \A i \in Comp : vec["a"][i] = vec["acopy"][i] + vec["b"][i]
  /\ vpc = "append4" =>
       \A i \in Comp :
         /\ vec["c"][i] = vec["a"][i] + vec["b"][i]
         /\ vec["d"][i] = vec["a"][i] + vec["b"][i] + vec["c"][i]
         /\ vec["e"][i] = vec["a"][i] + vec["b"][i] + vec["c"][i] + vec["d"][i]

\* Four vectors are added to a result that was not zero.
C6_Witness ==
  /\ vpc = "applied" /\ call.fn = "VecAppend" /\ NArgs = 4
  /\ \A i \in Comp : Was[i] > 0 /\ Arg(1)[i] > 0
  /\ Res[1] = Was[1] + 2 * Arg(1)[1]

\* The VecAppend test has made its four calls on vectors that are not zero.
C6_WitnessTest ==
  /\ vpc = "append4" /\ NArgs = 4
  /\ \A i \in Comp : vec["acopy"][i] > 0 /\ vec["b"][i] > 0

\* C7: after VecScaleAppend(r, s1, v1, ..., sk, vk), k from 1 to 5, with any
\* weights, every component of r is its value before the call plus
\* s1*v1[i] + ... + sk*vk[i], and the operands are unchanged; the
\* VecScaleAppend test's expectations hold.
C7_Theorem ==
  /\ call.fn = "VecScaleAppend" =>
       /\ NArgs \in 1..5
       /\ \A i \in Comp :
            Res[i] = Was[i] + Total([k \in 1..NArgs |-> call.scal[k] * Arg(k)[i]], NArgs)
       /\ Frame
  /\ vpc = "scale1" =>
       \A i \in Comp : vec["c"][i] = 2 * vec["b"][i]
  /\ vpc = "scale4" =>
       \A i \in Comp :
         /\ vec["c"][i] = 2 * vec["a"][i] + 3 * vec["b"][i]
         /\ vec["d"][i] = 2 * vec["a"][i] + 3 * vec["b"][i] + 4 * vec["c"][i]
         /\ vec["e"][i] = 2 * vec["a"][i] + 3 * vec["b"][i] + 4 * vec["c"][i]
                            + 5 * vec["d"][i]

\* A chain of five terms with weights -1 and 3 is added to a result that was
\* not zero.
C7_Witness ==
  /\ vpc = "applied" /\ call.fn = "VecScaleAppend" /\ NArgs = 5
  /\ call.scal = <<3, -1, -1, 3, 3>>
  /\ \A i \in Comp : Was[i] > 0 /\ Arg(1)[i] > 0
  /\ Res[1] = Was[1] + 5 * Arg(1)[1]

\* C8: after VecAdd(r, v1, ..., vk), k from 2 to 4, every component of r is
\* v1[i] + ... + vk[i], and after VecSubtract(r, a, b) it is a[i] - b[i],
\* whatever r held before, and the operands are unchanged; the VecAdd and
\* VecSub tests' expectations hold.
C8_Theorem ==
  /\ call.fn = "VecAdd" =>
       /\ NArgs \in 2..4
       /\ \A i \in Comp : Res[i] = Total([k \in 1..NArgs |-> Arg(k)[i]], NArgs)
       /\ Frame
  /\ call.fn = "VecSubtract" =>
       /\ NArgs = 2
       /\ \A i \in Comp : Res[i] = Arg(1)[i] - Arg(2)[i]
       /\ Frame
  /\ vpc = "add3" =>
       \A i \in Comp :
         /\ vec["c"][i] = vec["a"][i] + vec["b"][i]
         /\ vec["d"][i] = vec["a"][i] + vec["b"][i] + vec["c"][i]
         /\ vec["e"][i] = vec["a"][i] + vec["b"][i] + vec["c"][i] + vec["d"][i]
  /\ vpc = "sub1" =>
       \A i \in Comp : vec["c"][i] = vec["a"][i] - vec["b"][i]

\* VecAdd overwrites a result that was not zero: the old value is gone.
C8_Witness ==
  /\ vpc = "applied" /\ call.fn = "VecAdd" /\ NArgs = 4
  /\ \A i \in Comp : Was[i] > 0 /\ Arg(1)[i] > 0
  /\ Res[1] = 2 * Arg(1)[1]
  /\ Res[1] # Was[1] + 2 * Arg(1)[1]

\* VecSubtract overwrites a result that was not zero, with a negative component.
C8_WitnessSub ==
  /\ vpc = "applied" /\ call.fn = "VecSubtract"
  /\ Was[1] > 0 /\ Res[1] < 0

\* C9: after VecPow(r, a, p) every component of r is a[i] to the power p (for
\* p = 2, a[i] * a[i]), and a is unchanged; the VecPow test's expectation
\* c[i] = pow(a[i], 2) holds.
C9_Theorem ==
  /\ call.fn = "VecPow" =>
       /\ \A i \in Comp : Res[i] = Power(Arg(1)[i], call.scal[1])
       /\ call.scal[1] = 2 => \A i \in Comp : Res[i] = Arg(1)[i] * Arg(1)[i]
       /\ Frame
  /\ vpc = "pow1" =>
       \A i \in Comp : vec["c"][i] = vec["a"][i] * vec["a"][i]

\* The test's VecPow(c, a, 2) on a vector whose components differ: each
\* component of c is the square of its own component of a.
C9_Witness ==
  /\ vpc = "pow1" /\ call.fn = "VecPow" /\ call.scal = <<2>>
  /\ vec["a"] = <<0, 1, 2>>
  /\ vec["c"] = <<0, 1, 4>>

\* The fixture of one test when the first vector function is called: the
\* constructor has run reset(), and so has the first statement of the test body
\* (this->reset()), which draws a and b anew and zeroes c, d, e.
InitVec ==
  /\ TestcaseInit
  /\ kind = "Laplace"
  /\ file = [exists |-> FALSE, tokens |-> <<>>]
  /\ vpc = "fixture"
  /\ vec \in ResetStates
  /\ call = NoCall
  /\ old = vec

NextVec ==
  \/ T_Append1 \/ T_Append2 \/ T_Append3 \/ T_Append4
  \/ T_Scale1 \/ T_Scale2 \/ T_Scale3 \/ T_Scale4
  \/ T_Add1 \/ T_Add2 \/ T_Add3
  \/ T_Sub1
  \/ T_Pow1
  \/ ApplyVecAppend \/ ApplyVecScaleAppend \/ ApplyVecAdd
  \/ ApplyVecSubtract \/ ApplyVecPow

SpecVec == InitVec /\ [][NextVec]_vars
====
